---- MODULE Spec2Model ----
(***************************************************************************)
(* A model of API.py, the EDI Records API: module start-up (environment,  *)
(* connection test, SQLAlchemy initialisation, in-memory fallback,         *)
(* create_all) followed by the request handlers index, get_records,        *)
(* add_record and health_check, run by concurrently scheduled request      *)
(* threads.  The relational database and its session are the environment  *)
(* of the program: they are modelled as far as the handlers use them.      *)
(***************************************************************************)
EXTENDS Integers, Sequences, FiniteSets, Bags, TLC

VARIABLES
    pc,                 \* position of the module's start-up code
    DB_HOST,            \* os.environ.get("DB_HOST"), Null when unset
    USE_DATABASE,       \* the module global of the same name
    db_connected,       \* the module global of the same name
    db,                 \* "none" or "sqlalchemy" (db = SQLAlchemy(app))
    in_memory_defined,  \* whether in_memory_records and next_id are bound
    in_memory_records,  \* the in-memory list
    next_id,            \* the in-memory id counter
    threads,            \* the request threads inside create_in_memory_record (a bag)
    table,              \* rows of edi_records, in insertion order
    id_seq,             \* next value of the primary-key sequence of edi_records
    session,            \* db.session: pending objects, transaction usable or not
    db_reachable,       \* environment: the database server answers
    n_insert,           \* number of insert requests that passed validation
    created,            \* history: the inserts answered 201 (payload and record)
    response            \* the exchange completed by the last step, if any

vars == <<pc, DB_HOST, USE_DATABASE, db_connected, db, in_memory_defined,
          in_memory_records, next_id, threads, table, id_seq, session,
          db_reachable, n_insert, created, response>>

----------------------------------------------------------------------------
(* Bounds of the model *)

\* number of request threads the server runs at once
NumThreads == 2

\* insert requests (past validation) handled in one run
MaxInserts == 3

----------------------------------------------------------------------------
(* Values *)

\* Python's None, JSON null
Null == "null"

required_env_vars == {"DB_USER", "DB_PASSWORD", "DB_HOST", "DB_NAME"}

\* the hosts an environment may name: an Azure server and a local one
Hosts == {"srv.postgres.database.azure.com", "localhost"}

\* "azure" in DB_HOST.lower()
IsAzureHost(h) == h = "srv.postgres.database.azure.com"

required_fields == {"ClientCode", "ProductCode", "Date", "Quantity"}

optional_fields ==
    {"EDIWeekNumber", "ExpectedDeliveryDate", "DeliveryNature", "DeliveredQuantity"}

\* the value a request gives a field other than ClientCode
SampleValue(f) ==
    CASE f = "ProductCode" -> "P1"
      [] f = "Date" -> "2024-01-01"
      [] f = "Quantity" -> "10"
      [] f = "EDIWeekNumber" -> "5"
      [] f = "ExpectedDeliveryDate" -> "2024-02-01"
      [] f = "DeliveryNature" -> "partial"
      [] f = "DeliveredQuantity" -> "7"
      [] OTHER -> Null

\* A JSON body as request.get_json() returns it: None, a dict (keys, val) or
\* a list of strings (keys are its elements).
NullBody == [kind |-> "null", keys |-> {}, val |-> <<>>]

ObjectBody(R, O, c) ==
    [kind |-> "object", keys |-> R \cup O,
     val |-> [f \in R \cup O |-> IF f = "ClientCode" THEN c ELSE SampleValue(f)]]

ArrayBody(R) == [kind |-> "array", keys |-> R, val |-> <<>>]

\* the sets of required fields an incomplete object has: none, all but Quantity,
\* all but ClientCode, ClientCode alone
IncompleteChoices ==
    {{}, required_fields \ {"Quantity"}, required_fields \ {"ClientCode"}, {"ClientCode"}}

\* The bodies requests are drawn from: null; objects that lack required fields;
\* objects with every required field; lists of field names
Payloads ==
    {NullBody}
    \cup {ObjectBody(R, {}, "C1") : R \in IncompleteChoices}
    \cup {ObjectBody(required_fields \ {"Quantity"}, optional_fields, "C1")}
    \cup {ObjectBody(required_fields, {}, "C1"),
          ObjectBody(required_fields, optional_fields, "C2")}
    \cup {ArrayBody(required_fields), ArrayBody(required_fields \ {"Quantity"})}

----------------------------------------------------------------------------
(* Python's view of a JSON body *)

\* not data
Falsy(data) == data.kind = "null" \/ data.keys = {}

\* field in data: a key of a dict, an element of a list
Contains(data, f) == f \in data.keys

\* Faulty variant of Get: data.get(f, "") in place of data.get(f)
Get_EmptyDefault(data, f) == IF f \in data.keys THEN data.val[f] ELSE ""

\* data.get(f)
Get(data, f) == IF f \in data.keys THEN data.val[f] ELSE Null

\* The exception that reading data['ClientCode'], data['ProductCode'], data['Date']
\* and data['Quantity'] raises (TypeError unless data is a dict, KeyError for an
\* absent key), Null when it raises none
SubscriptError(data) ==
    IF data.kind # "object" THEN "TypeError"
    ELSE IF \E f \in required_fields : f \notin data.keys THEN "KeyError"
    ELSE Null

\* Faulty variant of InvalidPayload: any(...) in place of all(...)
InvalidPayload_AnyField(data) ==
    Falsy(data) \/ ~(\E f \in required_fields : Contains(data, f))

\* not data or not all(field in data for field in required_fields)
InvalidPayload(data) ==
    Falsy(data) \/ ~(\A f \in required_fields : Contains(data, f))

\* the dict create_in_memory_record builds; EdiRecord.to_dict() has the same keys
Record(id, data) ==
    [ID |-> id,
     ClientCode |-> data.val["ClientCode"],
     ProductCode |-> data.val["ProductCode"],
     Date |-> data.val["Date"],
     Quantity |-> data.val["Quantity"],
     EDIWeekNumber |-> Get(data, "EDIWeekNumber"),
     ExpectedDeliveryDate |-> Get(data, "ExpectedDeliveryDate"),
     DeliveryNature |-> Get(data, "DeliveryNature"),
     DeliveredQuantity |-> Get(data, "DeliveredQuantity")]

\* EdiRecord(ClientCode=..., ...): the primary key is unset (0) until flushed
EdiRecord(data) == Record(0, data)

\* sorted(..., key=lambda x: x['ID']) and ORDER BY ID: a stable insertion
RECURSIVE InsertById(_, _)
InsertById(r, s) ==
    IF s = <<>> THEN <<r>>
    ELSE IF r.ID < Head(s).ID THEN <<r>> \o s
    ELSE <<Head(s)>> \o InsertById(r, Tail(s))

\* Faulty variant of SortedById: the list is returned in insertion order
SortedById_Unsorted(s) == s

RECURSIVE SortedById(_)
SortedById(s) ==
    IF s = <<>> THEN <<>>
    ELSE InsertById(s[Len(s)], SortedById(SubSeq(s, 1, Len(s) - 1)))

----------------------------------------------------------------------------
(* Responses *)

\* An exchange: the handler, the JSON body of the request (Null for a GET), the
\* status and the body of the response
NoResponse == [kind |-> "none", request |-> Null, status |-> 0, body |-> Null]

Response(kind, request, status, body) ==
    [kind |-> kind, request |-> request, status |-> status, body |-> body]

\* {"error": f"Invalid payload. Required fields are: {required_fields}"}, 400
InvalidPayloadResponse(data) ==
    Response("insert", data, 400,
             [error |-> "Invalid payload", fields |-> required_fields])

\* except exc.SQLAlchemyError: {"error": f"Database error: {str(e)}"}, 500
DatabaseError(kind, request, e) ==
    Response(kind, request, 500, [error |-> "Database error", exception |-> e])

\* except Exception: {"error": f"An unexpected error occurred: {str(e)}"}, 500
UnexpectedError(kind, request, e) ==
    Response(kind, request, 500,
             [error |-> "An unexpected error occurred", exception |-> e])

\* an exception no handler catches: Flask answers 500 Internal Server Error
Unhandled(kind, request, e) ==
    Response(kind, request, 500, [unhandled |-> e])

\* {"message": "Record added successfully...", "record": ...}, 201
Created(data, record) ==
    Response("insert", data, 201,
             [message |-> "Record added successfully", record |-> record])

----------------------------------------------------------------------------
(* Start-up: the module's top-level code and the __main__ block *)

\* [var for var in required_env_vars if not os.environ.get(var)]
missing_vars(environ) == required_env_vars \ environ

\* A request thread inside create_in_memory_record: its position, its argument,
\* the record it built and the value of next_id it read for the increment
Thread(at, data, record, loaded) ==
    [pc |-> at, data |-> data, record |-> record, loaded |-> loaded]

\* The bag of threads with thread t moved on to t2
Moved(t, t2) == (threads (-) SetToBag({t})) (+) SetToBag({t2})

\* A clean session: nothing pending, transaction usable
NewSession == [pending |-> <<>>, active |-> TRUE]

\* The state after the environment is read and validated (lines 25-60): the
\* inputs are the USE_DATABASE flag, the variables that are set, the host named.
\* A database is part of the environment only when the program is set to use one.
\* The edi_records table starts empty, its sequence at 1.
Init ==
    \E flag \in BOOLEAN, environ \in SUBSET required_env_vars, host \in Hosts :
        /\ DB_HOST = IF "DB_HOST" \in environ THEN host ELSE Null
        /\ USE_DATABASE = (flag /\ missing_vars(environ) = {})
        /\ pc = IF flag /\ missing_vars(environ) = {}
                    THEN "test_connection" ELSE "init_storage"
        /\ db_connected = FALSE
        /\ db = "none"
        /\ in_memory_defined = FALSE
        /\ in_memory_records = <<>>
        /\ next_id = 0
        /\ threads = EmptyBag
        /\ table = <<>>
        /\ id_seq = 1
        /\ session = NewSession
        /\ db_reachable \in (IF flag /\ missing_vars(environ) = {} THEN BOOLEAN ELSE {FALSE})
        /\ n_insert = 0
        /\ created = {}
        /\ response = NoResponse

\* with test_engine.connect() as conn: conn.execute(text("SELECT 1"))
TestConnection ==
    /\ pc = "test_connection"
    /\ pc' = "init_storage"
    /\ IF db_reachable
          THEN db_connected' = TRUE /\ UNCHANGED USE_DATABASE
          ELSE USE_DATABASE' = FALSE /\ db_connected' = FALSE
    /\ response' = NoResponse
    /\ UNCHANGED <<DB_HOST, db, in_memory_defined, in_memory_records, next_id,
                   threads, table, id_seq, session, db_reachable, n_insert, created>>

\* Faulty variant of InitStorage: the counter starts at 0
InitStorage_CounterFromZero ==
    /\ pc = "init_storage"
    /\ pc' = "main"
    /\ IF USE_DATABASE /\ db_connected
          THEN /\ \E initialised \in BOOLEAN :
                    IF initialised
                       THEN db' = "sqlalchemy" /\ UNCHANGED <<USE_DATABASE, db_connected>>
                       ELSE USE_DATABASE' = FALSE /\ db_connected' = FALSE /\ UNCHANGED db
               /\ UNCHANGED <<in_memory_defined, in_memory_records, next_id>>
          ELSE /\ in_memory_defined' = TRUE
               /\ in_memory_records' = <<>>
               /\ next_id' = 0
               /\ UNCHANGED <<USE_DATABASE, db_connected, db>>
    /\ response' = NoResponse
    /\ UNCHANGED <<DB_HOST, threads, table, id_seq, session, db_reachable, n_insert, created>>

\* if USE_DATABASE and db_connected: db = SQLAlchemy(app), which may raise;
\* else: in_memory_records = [], next_id = 1
InitStorage ==
    /\ pc = "init_storage"
    /\ pc' = "main"
    /\ IF USE_DATABASE /\ db_connected
          THEN /\ \E initialised \in BOOLEAN :
                    IF initialised
                       THEN db' = "sqlalchemy" /\ UNCHANGED <<USE_DATABASE, db_connected>>
                       ELSE USE_DATABASE' = FALSE /\ db_connected' = FALSE /\ UNCHANGED db
               /\ UNCHANGED <<in_memory_defined, in_memory_records, next_id>>
          ELSE /\ in_memory_defined' = TRUE
               /\ in_memory_records' = <<>>
               /\ next_id' = 1
               /\ UNCHANGED <<USE_DATABASE, db_connected, db>>
    /\ response' = NoResponse
    /\ UNCHANGED <<DB_HOST, threads, table, id_seq, session, db_reachable, n_insert, created>>

\* if __name__ == '__main__': db.create_all() under try/except, then app.run();
\* a WSGI server imports the module and skips the block
Main ==
    /\ pc = "main"
    /\ pc' = "serving"
    /\ \E as_main \in BOOLEAN, tables_created \in BOOLEAN :
          IF as_main /\ USE_DATABASE /\ db_connected /\ ~(tables_created /\ db_reachable)
             THEN USE_DATABASE' = FALSE /\ db_connected' = FALSE
             ELSE UNCHANGED <<USE_DATABASE, db_connected>>
    /\ response' = NoResponse
    /\ UNCHANGED <<DB_HOST, db, in_memory_defined, in_memory_records, next_id,
                   threads, table, id_seq, session, db_reachable, n_insert, created>>

\* The handlers' test: if USE_DATABASE and db_connected
DatabaseMode == USE_DATABASE /\ db_connected

\* Environment: the database server becomes unreachable, or reachable again,
\* while the program still talks to it
DatabaseChanges ==
    /\ pc = "test_connection" \/ DatabaseMode
    /\ db_reachable' = ~db_reachable
    /\ response' = NoResponse
    /\ UNCHANGED <<pc, DB_HOST, USE_DATABASE, db_connected, db, in_memory_defined,
                   in_memory_records, next_id, threads, table, id_seq, session,
                   n_insert, created>>

----------------------------------------------------------------------------
(* db.session and the edi_records table, as add_record and the queries use them *)

\* db.session.add(new_record)
SessionAdd(s, obj) == [s EXCEPT !.pending = Append(@, obj)]

\* Faulty variant of SessionRollback: the except clauses do not roll back
SessionRollback_Omitted(s) == s

\* db.session.rollback(): pending objects are expunged, the transaction is usable
SessionRollback(s) == [pending |-> <<>>, active |-> TRUE]

\* The rows a flush writes: each pending object takes the next sequence value
Flushed(pending, seq) ==
    [i \in 1..Len(pending) |-> [pending[i] EXCEPT !.ID = seq + i - 1]]

\* db.session.commit(): the outcomes the database allows.  A session whose flush
\* failed refuses further work until rolled back.  A failed flush keeps the
\* pending objects and may or may not have drawn values from the sequence.
CommitOutcomes(s, tbl, seq, reachable) ==
    IF ~s.active
       THEN {[raised |-> "PendingRollbackError", session |-> s,
              table |-> tbl, id_seq |-> seq]}
       ELSE {[raised |-> "OperationalError",
              session |-> [s EXCEPT !.active = FALSE],
              table |-> tbl, id_seq |-> seq]}
            \cup (IF reachable
                     THEN {[raised |-> Null, session |-> NewSession,
                            table |-> tbl \o Flushed(s.pending, seq),
                            id_seq |-> seq + Len(s.pending)],
                           [raised |-> "IntegrityError",
                            session |-> [s EXCEPT !.active = FALSE],
                            table |-> tbl, id_seq |-> seq + Len(s.pending)]}
                     ELSE {})

\* A statement run through the session (the listing query, SELECT 1): Null when
\* it succeeds, else the exception it raises
Execute(s, reachable) ==
    IF ~s.active THEN "PendingRollbackError"
    ELSE IF ~reachable THEN "OperationalError"
    ELSE Null

----------------------------------------------------------------------------
(* Request handlers *)

\* A request can be taken: the server is up and a request thread is free
Serving == pc = "serving" /\ BagCardinality(threads) < NumThreads

\* index(): "azure" in DB_HOST.lower() raises AttributeError when DB_HOST is None
IndexResponse ==
    IF DB_HOST = Null
       THEN Unhandled("index", Null, "AttributeError")
       ELSE Response("index", Null, 200,
                [message |-> "EDI Records API is running. Use /records to interact.",
                 mode |-> IF DatabaseMode THEN "Azure Database" ELSE "In-Memory",
                 database_connected |-> db_connected,
                 environment |-> IF IsAzureHost(DB_HOST) THEN "Azure" ELSE "Local"])

index ==
    /\ Serving
    /\ response' = IndexResponse
    /\ UNCHANGED <<pc, DB_HOST, USE_DATABASE, db_connected, db, in_memory_defined,
                   in_memory_records, next_id, threads, table, id_seq, session,
                   db_reachable, n_insert, created>>

\* get_records(): the response of the database branch and of the in-memory branch
GetRecordsResponse ==
    IF DatabaseMode
       THEN IF Execute(session, db_reachable) = Null
               THEN Response("list", Null, 200, SortedById(table))
               ELSE DatabaseError("list", Null, Execute(session, db_reachable))
       ELSE IF in_memory_defined
               THEN Response("list", Null, 200, SortedById(in_memory_records))
               ELSE UnexpectedError("list", Null, "NameError")

get_records ==
    /\ Serving
    /\ response' = GetRecordsResponse
    /\ UNCHANGED <<pc, DB_HOST, USE_DATABASE, db_connected, db, in_memory_defined,
                   in_memory_records, next_id, threads, table, id_seq, session,
                   db_reachable, n_insert, created>>

\* Faulty variant of HealthResponse: the query runs outside try/except
HealthResponse_Uncaught ==
    IF DatabaseMode
       THEN IF Execute(session, db_reachable) = Null
               THEN Response("health", Null, 200,
                        [status |-> "healthy", database |-> "connected",
                         mode |-> "azure_database"])
               ELSE Unhandled("health", Null, Execute(session, db_reachable))
       ELSE Response("health", Null, 200,
                [status |-> "healthy", database |-> "not_used", mode |-> "in-memory"])

\* health_check()
HealthResponse ==
    IF DatabaseMode
       THEN IF Execute(session, db_reachable) = Null
               THEN Response("health", Null, 200,
                        [status |-> "healthy", database |-> "connected",
                         mode |-> "azure_database"])
               ELSE Response("health", Null, 500,
                        [status |-> "unhealthy", database |-> "disconnected",
                         mode |-> "azure_database"])
       ELSE Response("health", Null, 200,
                [status |-> "healthy", database |-> "not_used", mode |-> "in-memory"])

health_check ==
    /\ Serving
    /\ response' = HealthResponse
    /\ UNCHANGED <<pc, DB_HOST, USE_DATABASE, db_connected, db, in_memory_defined,
                   in_memory_records, next_id, threads, table, id_seq, session,
                   db_reachable, n_insert, created>>

\* add_record(), database branch: build the object, add, commit, answer with
\* to_dict() (which reloads the committed row); any exception is answered after
\* db.session.rollback()
AddRecordDatabase(data) ==
    IF SubscriptError(data) # Null
       THEN /\ session' = SessionRollback(session)
            /\ response' = UnexpectedError("insert", data, SubscriptError(data))
            /\ UNCHANGED <<table, id_seq, created>>
       ELSE \E c \in CommitOutcomes(SessionAdd(session, EdiRecord(data)),
                                    table, id_seq, db_reachable) :
               /\ table' = c.table
               /\ id_seq' = c.id_seq
               /\ IF c.raised # Null
                     THEN /\ session' = SessionRollback(c.session)
                          /\ response' = DatabaseError("insert", data, c.raised)
                          /\ UNCHANGED created
                     ELSE \E reloaded \in BOOLEAN :
                             IF reloaded
                                THEN /\ session' = c.session
                                     /\ response' = Created(data, c.table[Len(c.table)])
                                     /\ created' = created \cup
                                            {[data |-> data, record |-> c.table[Len(c.table)]]}
                                ELSE /\ session' = SessionRollback(c.session)
                                     /\ response' = DatabaseError("insert", data, "to_dict failed")
                                     /\ UNCHANGED created

\* add_record(), in-memory branch, up to the record literal of
\* create_in_memory_record: "ID": next_id is read first (NameError when unbound),
\* then data['ClientCode'] (TypeError on a list)
CreateInMemoryRecord(data) ==
    IF ~in_memory_defined
       THEN response' = UnexpectedError("insert", data, "NameError") /\ UNCHANGED threads
    ELSE IF SubscriptError(data) # Null
       THEN /\ response' = UnexpectedError("insert", data, SubscriptError(data))
            /\ UNCHANGED threads
    ELSE /\ threads' = threads (+) SetToBag({Thread("built", data, Record(next_id, data), 0)})
         /\ response' = NoResponse

\* add_record(): validation, then one of the two branches
add_record(data) ==
    /\ Serving
    /\ IF InvalidPayload(data)
          THEN /\ response' = InvalidPayloadResponse(data)
               /\ UNCHANGED <<threads, table, id_seq, session, n_insert, created>>
          ELSE /\ n_insert < MaxInserts
               /\ n_insert' = n_insert + 1
               /\ IF DatabaseMode
                     THEN AddRecordDatabase(data) /\ UNCHANGED threads
                     ELSE /\ CreateInMemoryRecord(data)
                          /\ UNCHANGED <<table, id_seq, session, created>>
    /\ UNCHANGED <<pc, DB_HOST, USE_DATABASE, db_connected, db, in_memory_defined,
                   in_memory_records, next_id, db_reachable>>

\* in_memory_records.append(record)
AppendRecord(t) ==
    /\ t.pc = "built"
    /\ in_memory_records' = Append(in_memory_records, t.record)
    /\ threads' = Moved(t, Thread("appended", t.data, t.record, 0))
    /\ response' = NoResponse
    /\ UNCHANGED <<pc, DB_HOST, USE_DATABASE, db_connected, db, in_memory_defined,
                   next_id, table, id_seq, session, db_reachable, n_insert, created>>

append_record == \E t \in BagToSet(threads) : AppendRecord(t)

\* next_id += 1, the read of the global
LoadNextId(t) ==
    /\ t.pc = "appended"
    /\ threads' = Moved(t, Thread("loaded", t.data, t.record, next_id))
    /\ response' = NoResponse
    /\ UNCHANGED <<pc, DB_HOST, USE_DATABASE, db_connected, db, in_memory_defined,
                   in_memory_records, next_id, table, id_seq, session,
                   db_reachable, n_insert, created>>

load_next_id == \E t \in BagToSet(threads) : LoadNextId(t)

\* next_id += 1, the write of the global; return record; the 201 response
StoreNextId(t) ==
    /\ t.pc = "loaded"
    /\ next_id' = t.loaded + 1
    /\ response' = Created(t.data, t.record)
    /\ created' = created \cup {[data |-> t.data, record |-> t.record]}
    /\ threads' = threads (-) SetToBag({t})
    /\ UNCHANGED <<pc, DB_HOST, USE_DATABASE, db_connected, db, in_memory_defined,
                   in_memory_records, table, id_seq, session, db_reachable, n_insert>>

store_next_id == \E t \in BagToSet(threads) : StoreNextId(t)

----------------------------------------------------------------------------

Next ==
    \/ TestConnection
    \/ InitStorage
    \/ Main
    \/ DatabaseChanges
    \/ index
    \/ get_records
    \/ health_check
    \/ \E data \in Payloads : add_record(data)
    \/ append_record
    \/ load_next_id
    \/ store_next_id

Spec == Init /\ [][Next]_vars

----------------------------------------------------------------------------
(* Properties *)

\* The record collection the handlers serve from
Store == IF DatabaseMode THEN table ELSE in_memory_records

StoreVars == <<in_memory_defined, in_memory_records, next_id, table, id_seq, session>>

Range(s) == {s[i] : i \in DOMAIN s}

RecordKeys ==
    {"ID", "ClientCode", "ProductCode", "Date", "Quantity"} \cup optional_fields

\* A JSON object with every required field
ValidObject(data) == data.kind = "object" /\ required_fields \subseteq data.keys

\* The record the specification expects for a valid object: the given id, the
\* payload's value for every field it has, null for every optional field it lacks
ExpectedRecord(id, data) ==
    [k \in RecordKeys |->
        IF k = "ID" THEN id
        ELSE IF k \in DOMAIN data.val THEN data.val[k]
        ELSE Null]

\* The required fields a payload does not have
MissingFields(data) == {f \in required_fields : f \notin data.keys}

IsAscending(s) == \A i, j \in DOMAIN s : i < j => s[i].ID <= s[j].ID

\* s and u hold the same records, each as many times
SameRecords(s, u) ==
    /\ Len(s) = Len(u)
    /\ \A r \in Range(s) \cup Range(u) :
          Cardinality({i \in DOMAIN s : s[i] = r}) = Cardinality({i \in DOMAIN u : u[i] = r})

\* C1: in in-memory mode, once the request threads have finished N concurrent
\* inserts, the N stored records carry the ids 1..N in increasing order.
C1_ConcurrentInsertIds ==
    (pc = "serving" /\ ~DatabaseMode /\ in_memory_defined /\ threads = EmptyBag)
        => \A i \in DOMAIN in_memory_records : in_memory_records[i].ID = i

C3_MissingFieldsRejected ==
    (response.kind = "insert" /\ MissingFields(response.request) # {})
        => /\ response.status = 400
           /\ MissingFields(response.request) \subseteq response.body.fields

C3_Witness ==
    /\ response.kind = "insert"
    /\ response.request.kind = "object"
    /\ MissingFields(response.request) = {"Quantity"}
    /\ response.status = 400
    /\ "Quantity" \in response.body.fields

\* The insert answered by r ended in an exception of add or commit
CommitRaised(r) ==
    /\ r.kind = "insert"
    /\ "exception" \in DOMAIN r.body
    /\ r.body.exception \in {"OperationalError", "IntegrityError", "PendingRollbackError"}

\* C4: in relational mode, an insert whose commit raises is answered 500 with the
\* session rolled back and the table as it was, and no insert is ever refused
\* because an earlier failure was left pending.
C4_RollbackOnFailure ==
    [][(DatabaseMode /\ n_insert' = n_insert + 1 /\ CommitRaised(response'))
          => /\ response'.status = 500
             /\ session' = NewSession
             /\ table' = table
             /\ created' = created
             /\ response'.body.exception # "PendingRollbackError"]_vars

\* a valid insert succeeds after an earlier commit failed past the sequence
C4_Witness ==
    /\ DatabaseMode
    /\ response.kind = "insert" /\ response.status = 201
    /\ id_seq > Len(table) + 1
    /\ session = NewSession

\* C5: every record a successful insert returned is still stored, unchanged, and
\* is in every listing; no two stored records share an id.
C5_RecordsPersistIdsUnique ==
    /\ \A c \in created : c.record \in Range(Store)
    /\ \A i, j \in DOMAIN Store : i # j => Store[i].ID # Store[j].ID
    /\ (response.kind = "list" /\ response.status = 200)
          => \A c \in created : c.record \in Range(response.body)

\* C6: a listing that succeeds holds all stored records in ascending order of id,
\* and no list request changes the records, the counters or the session.
C6_ListSortedNoSideEffect ==
    [][response'.kind = "list"
          => /\ UNCHANGED StoreVars
             /\ response'.status = 200
                   => /\ IsAscending(response'.body)
                      /\ SameRecords(response'.body, Store')]_vars

\* a listing of an in-memory list that is not in order of id
C6_Witness ==
    /\ response.kind = "list" /\ response.status = 200
    /\ ~IsAscending(Store)
    /\ Len(response.body) >= 3

\* C7: the health check answers 200 healthy in in-memory mode and whenever the
\* database answers; when the query fails it answers 500 unhealthy from its own
\* handler, and the server goes on serving.
C7_HealthCheck ==
    response.kind = "health"
        => /\ pc = "serving"
           /\ "status" \in DOMAIN response.body
           /\ IF DatabaseMode /\ ~db_reachable
                 THEN response.status = 500 /\ response.body.status = "unhealthy"
                 ELSE response.status = 200 /\ response.body.status = "healthy"

C7_Witness ==
    /\ response.kind = "health"
    /\ DatabaseMode /\ ~db_reachable
    /\ response.status = 500

\* C8: an insert with the four required fields and no optional one is answered
\* 201 (always so on an initialised in-memory store; a 500 otherwise) with a
\* record that has a positive id, the payload's four values and null for the
\* four optional attributes, and that record is stored.
C8_RequiredOnlyInsert ==
    (response.kind = "insert" /\ response.request.kind = "object"
        /\ response.request.keys = required_fields)
        => /\ response.status \in {201, 500}
           /\ (~DatabaseMode /\ in_memory_defined) => response.status = 201
           /\ response.status = 201
                 => /\ response.body.record.ID >= 1
                    /\ response.body.record =
                          ExpectedRecord(response.body.record.ID, response.request)
                    /\ \A f \in optional_fields : response.body.record[f] = Null
                    /\ response.body.record \in Range(Store)

C8_Witness ==
    /\ response.kind = "insert"
    /\ response.request.kind = "object"
    /\ response.request.keys = required_fields
    /\ response.status = 201
    /\ response.body.record.EDIWeekNumber = Null

\* C9: whatever the configuration, GET / answers 200 with message, mode and
\* database_connected, and mode is In-Memory exactly in in-memory mode.
C9_IndexAnswers ==
    response.kind = "index"
        => /\ response.status = 200
           /\ {"message", "mode", "database_connected"} \subseteq DOMAIN response.body
           /\ (response.body.mode = "In-Memory") <=> ~DatabaseMode

\* C10: whenever the server serves in in-memory mode, the list and the counter
\* are bound (empty and 1 before the first insert), a listing answers 200 and a
\* valid insert answers 201.
C10_InMemoryInitialised ==
    (pc = "serving" /\ ~DatabaseMode)
        => /\ in_memory_defined
           /\ n_insert = 0 => (in_memory_records = <<>> /\ next_id = 1)
           /\ response.kind = "list" => response.status = 200
           /\ (response.kind = "insert" /\ ValidObject(response.request))
                 => response.status = 201

====
